---- MODULE Spec2Model ----
(***************************************************************************)
(* Model of the actionFlow Redux middleware (src/actionFlow.js).           *)
(*                                                                         *)
(* The middleware is stateless; what is modelled is everything it touches: *)
(* the action objects it receives, the calls it makes to the host          *)
(* pipeline's next(), the caller-supplied promises, the promise returned   *)
(* by promise.then(...), and the host's FIFO microtask queue that runs the *)
(* continuations.  JavaScript objects are functions from field names to    *)
(* values; every JavaScript value is a string, except a types array, which *)
(* is a sequence of strings.                                               *)
(***************************************************************************)
EXTENDS Integers, Sequences, FiniteSets, TLC

\* ------------------------------------------------------------------ bounds
MaxCalls == 2        \* middleware calls in one run
MaxRestFields == 1   \* caller-defined fields of an action in SpecWide

\* ------------------------------------------------------- JavaScript values
Undefined == "undefined"
Falsy == {"undefined", "null", "false", "0", ""}
RestFields == {"id", "type", "value", "error"}
RestVals == {"r1", "r2"}
TypeTuples == {<<>>, <<"A">>, <<"A", "B">>, <<"A", "B", "C">>,
               <<"A", "B", "C", "D">>}
\* next(action) either returns a value or raises
NextResults == {[kind |-> "return", val |-> "n1"],
                [kind |-> "throw", val |-> "x1"]}

PromiseRef(i) == "P" \o ToString(i)
\* what the caller's promise p may fulfil with, and reject with
Values(p) == {"v" \o ToString(p)}
Reasons(p) == {"e" \o ToString(p)}
Pending == [state |-> "pending", value |-> Undefined]
NoPromise == [state |-> "none", value |-> Undefined]

\* ------------------------------------------------ the middleware's pieces
\* mutant: only promise is taken out of the action
Rest_KeepsTypes(action) == [k \in DOMAIN action \ {"promise"} |-> action[k]]

\* const { promise, types, ...rest } = action
Rest(action) == [k \in DOMAIN action \ {"promise", "types"} |-> action[k]]

\* { ...obj, k: v }
Spread(obj, k, v) ==
  [f \in DOMAIN obj \cup {k} |-> IF f = k THEN v ELSE obj[f]]

\* mutant: a missing position falls back to the last element of types
Elem_Fallback(types, n) ==
  IF n <= Len(types) THEN types[n]
  ELSE IF Len(types) > 0 THEN types[Len(types)]
  ELSE Undefined

\* const [REQUEST, SUCCESS, FAILURE] = types
Elem(types, n) == IF n <= Len(types) THEN types[n] ELSE Undefined

\* mutant: if (!('promise' in action))
IsFlow_HasField(action) == "promise" \in DOMAIN action

\* if (!promise)
IsFlow(action) ==
  /\ "promise" \in DOMAIN action
  /\ action["promise"] \notin Falsy

\* mutant: the first dispatch is tagged with the second element of types
RequestAction_WrongTag(action) ==
  Spread(Rest(action), "type", Elem(action["types"], 2))

\* { ...rest, type: REQUEST }
RequestAction(action) ==
  Spread(Rest(action), "type", Elem(action["types"], 1))

\* mutant: { value, type: SUCCESS, ...rest }, rest spread last
SuccessAction_RestLast(action, value) ==
  [f \in DOMAIN Rest(action) \cup {"value", "type"} |->
     IF f \in DOMAIN Rest(action) THEN Rest(action)[f]
     ELSE IF f = "value" THEN value
     ELSE Elem(action["types"], 2)]

\* { ...rest, value, type: SUCCESS }
SuccessAction(action, value) ==
  Spread(Spread(Rest(action), "value", value), "type",
         Elem(action["types"], 2))

\* mutant: { error, type: FAILURE }, rest left out
FailureAction_NoRest(action, error) ==
  [error |-> error, type |-> Elem(action["types"], 3)]

\* { ...rest, error, type: FAILURE }
FailureAction(action, error) ==
  Spread(Spread(Rest(action), "error", error), "type",
         Elem(action["types"], 3))

\* ------------------------------------------------------------------ inputs
\* an action object built from an optional promise field, an optional types
\* field (each given as an empty or one-element set) and the other fields
Obj(pset, tset, r) ==
  [k \in (DOMAIN r) \cup (IF pset = {} THEN {} ELSE {"promise"})
                    \cup (IF tset = {} THEN {} ELSE {"types"}) |->
     IF k = "promise" THEN CHOOSE p \in pset : TRUE
     ELSE IF k = "types" THEN CHOOSE t \in tset : TRUE
     ELSE r[k]]

Rests ==
  UNION {[S -> RestVals] :
           S \in {T \in SUBSET RestFields : Cardinality(T) <= MaxRestFields}}

\* every shape of action, for a single call
WideActions(i) ==
  {Obj(pset, tset, r) :
     pset \in {{}} \cup {{f} : f \in Falsy} \cup {{PromiseRef(i)}},
     tset \in {{}} \cup {{t} : t \in TypeTuples},
     r \in Rests}

\* the actions of the concurrent runs: a plain action and flow actions with
\* a full triple that differ in their rest field
NarrowActions(i) ==
  {[type |-> "PLAIN"]}
  \cup {Obj({PromiseRef(i)}, {<<"A", "B", "C">>}, [id |-> v]) : v \in RestVals}

\* ------------------------------------------------------------------- state
VARIABLES
  promises,  \* promises[p]: state and value of the caller's promise p
  calls,     \* the middleware calls made so far, in order
  log,       \* the calls made to next(), in order
  queue,     \* the host's microtask queue
  settled,   \* the promises in the order they settled
  readied    \* the calls in the order their continuation was queued

vars == <<promises, calls, log, queue, settled, readied>>

Init ==
  /\ promises = [p \in 1..MaxCalls |-> Pending]
  /\ calls = <<>>
  /\ log = <<>>
  /\ queue = <<>>
  /\ settled = <<>>
  /\ readied = <<>>

\* next(a) as the host pipeline sees it: one more entry in its log, with the
\* call it comes from, the dispatch it is, and what next did with it
Entry(i, phase, a, out) ==
  [call |-> i, phase |-> phase, action |-> a, result |-> out]

\* mutant: the destructured rest is forwarded instead of the action
DispatchPlain_Rest(l, i, action, out) ==
  Append(l, Entry(i, "PLAIN", Rest(action), out))

\* return next(action)
DispatchPlain(l, i, action, out) ==
  Append(l, Entry(i, "PLAIN", action, out))

\* mutant: the synchronous dispatch is left out
DispatchRequest_Skipped(l, i, action, out) == l

\* next({ ...rest, type: REQUEST })
DispatchRequest(l, i, action, out) ==
  Append(l, Entry(i, "REQUEST", RequestAction(action), out))

\* mutant: promise.then(onFulfilled).catch(onRejected), so onRejected also
\* handles what next raises in onFulfilled
DispatchSuccess_Chained(l, i, action, value, out) ==
  IF out.kind = "throw"
    THEN Append(Append(l, Entry(i, "SUCCESS", SuccessAction(action, value),
                                out)),
                Entry(i, "FAILURE", FailureAction(action, out.val), out))
    ELSE Append(l, Entry(i, "SUCCESS", SuccessAction(action, value), out))

\* mutant: the two handlers of then are swapped
DispatchSuccess_Swapped(l, i, action, value, out) ==
  Append(l, Entry(i, "FAILURE", FailureAction(action, value), out))

\* (value) => next({ ...rest, value, type: SUCCESS })
DispatchSuccess(l, i, action, value, out) ==
  Append(l, Entry(i, "SUCCESS", SuccessAction(action, value), out))

\* mutant: promise.then(onFulfilled, onRejected).catch(onRejected), so the
\* re-raised rejection is reported a second time
DispatchFailure_Twice(l, i, action, error, out) ==
  Append(Append(l, Entry(i, "FAILURE", FailureAction(action, error), out)),
         Entry(i, "FAILURE", FailureAction(action, error), out))

\* mutant: onRejected only re-raises
DispatchFailure_Skipped(l, i, action, error, out) == l

\* (error) => { next({ ...rest, error, type: FAILURE }) ... }
DispatchFailure(l, i, action, error, out) ==
  Append(l, Entry(i, "FAILURE", FailureAction(action, error), out))

\* mutant: onFulfilled returns the resolved value after dispatching
SuccessOutcome_PassThrough(value, out) ==
  IF out.kind = "return"
    THEN [state |-> "fulfilled", value |-> value]
    ELSE [state |-> "rejected", value |-> out.val]

\* how onFulfilled settles the returned promise: with what next returned,
\* or with what next raised
SuccessOutcome(value, out) ==
  IF out.kind = "return"
    THEN [state |-> "fulfilled", value |-> out.val]
    ELSE [state |-> "rejected", value |-> out.val]

\* mutant: onRejected does not re-raise, so it returns undefined
FailureOutcome_Swallowed(error, out) ==
  IF out.kind = "return"
    THEN [state |-> "fulfilled", value |-> Undefined]
    ELSE [state |-> "rejected", value |-> out.val]

\* how onRejected settles the returned promise: throw error, unless next
\* raised before it
FailureOutcome(error, out) ==
  IF out.kind = "return"
    THEN [state |-> "rejected", value |-> error]
    ELSE [state |-> "rejected", value |-> out.val]

\* mutant: rest and types live in variables shared by all invocations, so a
\* continuation sees those of the latest flow action
Captured_Shared(i) ==
  LET flows == {j \in 1..Len(calls) : calls[j].result.kind = "promise"}
  IN calls[CHOOSE j \in flows : \A h \in flows : h <= j].action

\* the rest and types a continuation of call i sees: the constants of its
\* own invocation
Captured(i) == calls[i].action

\* promise.then(onFulfilled, onRejected): the continuation is queued at once
\* when the promise is already settled, and on settlement otherwise
Then(i) ==
  IF promises[i].state # "pending"
    THEN /\ queue' = Append(queue, [kind |-> "reaction", call |-> i])
         /\ readied' = Append(readied, i)
    ELSE UNCHANGED <<queue, readied>>

\* mutant: the continuations are attached before the first dispatch, so
\* they stay attached when next raises on it
Dispatch_ThenFirst(action, out) ==
  /\ Len(calls) < MaxCalls
  /\ LET i == Len(calls) + 1
         call(result, ret) ==
           [action |-> action, result |-> result, ret |-> ret,
            atCall |-> promises[i].state, caller |-> "none",
            seen |-> Undefined, ranAt |-> 0]
     IN
       IF ~IsFlow(action)
         THEN
           /\ log' = DispatchPlain(log, i, action, out)
           /\ calls' = Append(calls, call(out, NoPromise))
           /\ UNCHANGED <<queue, readied>>
         ELSE IF "types" \notin DOMAIN action
           THEN
             /\ calls' = Append(calls,
                  call([kind |-> "throw", val |-> "TypeError"], NoPromise))
             /\ UNCHANGED <<log, queue, readied>>
           ELSE
             /\ Then(i)
             /\ log' = DispatchRequest(log, i, action, out)
             /\ IF out.kind = "throw"
                  THEN calls' = Append(calls, call(out, NoPromise))
                  ELSE calls' = Append(calls,
                         call([kind |-> "promise", val |-> Undefined],
                              Pending))
  /\ UNCHANGED <<promises, settled>>

\* actionFlow()(next)(action), with out what next does with the first
\* dispatch; the caller chains its own handlers on a returned promise
Dispatch(action, out) ==
  /\ Len(calls) < MaxCalls
  /\ LET i == Len(calls) + 1
         call(result, ret) ==
           [action |-> action, result |-> result, ret |-> ret,
            atCall |-> promises[i].state, caller |-> "none",
            seen |-> Undefined, ranAt |-> 0]
     IN
       IF ~IsFlow(action)
         THEN \* return next(action)
           /\ log' = DispatchPlain(log, i, action, out)
           /\ calls' = Append(calls, call(out, NoPromise))
           /\ UNCHANGED <<queue, readied>>
         ELSE IF "types" \notin DOMAIN action
           THEN \* destructuring undefined raises
             /\ calls' = Append(calls,
                  call([kind |-> "throw", val |-> "TypeError"], NoPromise))
             /\ UNCHANGED <<log, queue, readied>>
           ELSE
             /\ log' = DispatchRequest(log, i, action, out)
             /\ IF out.kind = "throw"
                  THEN /\ calls' = Append(calls, call(out, NoPromise))
                       /\ UNCHANGED <<queue, readied>>
                  ELSE /\ calls' = Append(calls,
                            call([kind |-> "promise", val |-> Undefined],
                                 Pending))
                       /\ Then(i)
  /\ UNCHANGED <<promises, settled>>

\* the caller's asynchronous work settles promise p
Settle(p, st, v) ==
  /\ promises[p].state = "pending"
  /\ IF p <= Len(calls) THEN IsFlow(calls[p].action) ELSE TRUE
  /\ promises' = [promises EXCEPT ![p] = [state |-> st, value |-> v]]
  /\ settled' = Append(settled, p)
  /\ IF p <= Len(calls) /\ calls[p].result.kind = "promise"
       THEN /\ queue' = Append(queue, [kind |-> "reaction", call |-> p])
            /\ readied' = Append(readied, p)
       ELSE UNCHANGED <<queue, readied>>
  /\ UNCHANGED <<calls, log>>

\* the continuation of call i runs: onFulfilled or onRejected, with out what
\* next does with the second dispatch; the returned promise settles and the
\* caller's handler is queued
RunReaction(out) ==
  /\ queue # <<>>
  /\ Head(queue).kind = "reaction"
  /\ LET i == Head(queue).call
         p == promises[i]
     IN
       /\ IF p.state = "fulfilled"
            THEN /\ log' = DispatchSuccess(log, i, Captured(i), p.value, out)
                 /\ calls' = [calls EXCEPT
                                ![i].ret = SuccessOutcome(p.value, out)]
            ELSE /\ log' = DispatchFailure(log, i, Captured(i), p.value, out)
                 /\ calls' = [calls EXCEPT
                                ![i].ret = FailureOutcome(p.value, out)]
       /\ queue' = Append(Tail(queue), [kind |-> "caller", call |-> i])
  /\ UNCHANGED <<promises, settled, readied>>

\* the handler the caller chained on the returned promise runs: the then
\* handler when it fulfilled, the catch handler when it rejected
RunCaller ==
  /\ queue # <<>>
  /\ Head(queue).kind = "caller"
  /\ LET i == Head(queue).call IN
       calls' = [calls EXCEPT
                   ![i].caller = IF calls[i].ret.state = "fulfilled"
                                   THEN "then" ELSE "catch",
                   ![i].seen = calls[i].ret.value,
                   ![i].ranAt = Len(log)]
  /\ queue' = Tail(queue)
  /\ UNCHANGED <<promises, log, settled, readied>>

SettleOf(p) ==
  \/ \E v \in Values(p) : Settle(p, "fulfilled", v)
  \/ \E e \in Reasons(p) : Settle(p, "rejected", e)

\* concurrent runs: up to MaxCalls calls in flight
Next ==
  \/ \E out \in NextResults :
       \E action \in NarrowActions(Len(calls) + 1) : Dispatch(action, out)
  \/ \E p \in 1..MaxCalls : SettleOf(p)
  \/ \E out \in NextResults : RunReaction(out)
  \/ RunCaller

Spec == Init /\ [][Next]_vars

\* one call, with an action of any shape
NextWide ==
  \/ \E out \in NextResults :
       \E action \in WideActions(1) : Len(calls) = 0 /\ Dispatch(action, out)
  \/ SettleOf(1)
  \/ \E out \in NextResults : RunReaction(out)
  \/ RunCaller

SpecWide == Init /\ [][NextWide]_vars

\* ---------------------------------------------------- vocabulary of claims
CallIds == 1..Len(calls)

IsPromise(v) == \E p \in 1..MaxCalls : v = PromiseRef(p)

\* an action with a promise and a types array / a three-element types array
FlowInput(a) ==
  /\ "promise" \in DOMAIN a
  /\ IsPromise(a["promise"])
  /\ "types" \in DOMAIN a

Triple(a) == FlowInput(a) /\ Len(a["types"]) = 3

\* the calls to next that call i caused, as positions in the log
EntriesOf(i) == {k \in 1..Len(log) : log[k].call = i}
PhaseOf(i, ph) == {k \in EntriesOf(i) : log[k].phase = ph}
SettlementsOf(i) == PhaseOf(i, "SUCCESS") \cup PhaseOf(i, "FAILURE")
Tagged(k, t) ==
  /\ "type" \in DOMAIN log[k].action
  /\ log[k].action["type"] = t

\* call i returned a promise: next did not raise on its first dispatch
Returned(i) == calls[i].result.kind = "promise"

\* every continuation that can run has run
Quiescent == queue = <<>>

\* ---------------------------------------------------------------------- C1
\* C1: once a call with a promise and types = [A, B, C] is over, next has
\* been called with a dispatch tagged A, and that is the first dispatch of
\* the call: none of its continuations ran before it, whatever the state of
\* the promise was at call time.
C1_RequestBeforeReturn ==
  \A i \in CallIds :
    Triple(calls[i].action) =>
      \E k \in EntriesOf(i) :
        /\ log[k].phase = "REQUEST"
        /\ Tagged(k, calls[i].action["types"][1])
        /\ \A j \in EntriesOf(i) : k <= j

\* a call made with an already rejected promise has returned, its REQUEST
\* dispatch is made and its continuation still waits in the queue
C1_Witness ==
  \E i \in CallIds :
    /\ Triple(calls[i].action)
    /\ calls[i].atCall = "rejected"
    /\ Returned(i)
    /\ PhaseOf(i, "REQUEST") # {}
    /\ SettlementsOf(i) = {}
    /\ \E n \in 1..Len(queue) : queue[n] = [kind |-> "reaction", call |-> i]

\* ---------------------------------------------------------------------- C2
\* the settlement dispatches of call i are at most one, and it is the one
\* that matches the settlement of the promise
SettlementMatches(i) ==
  /\ Cardinality(SettlementsOf(i)) <= 1
  /\ \A k \in SettlementsOf(i) :
       \/ /\ promises[i].state = "fulfilled"
          /\ log[k].phase = "SUCCESS"
          /\ Tagged(k, calls[i].action["types"][2])
       \/ /\ promises[i].state = "rejected"
          /\ log[k].phase = "FAILURE"
          /\ Tagged(k, calls[i].action["types"][3])

\* C2 as stated: for every action with a promise and types = [A, B, C], the
\* settlement dispatch is never doubled or mismatched, and once the promise
\* has settled and the continuations have run there is exactly one.
C2_Original ==
  \A i \in CallIds :
    Triple(calls[i].action) =>
      /\ SettlementMatches(i)
      /\ (promises[i].state # "pending" /\ Quiescent) =>
            Cardinality(SettlementsOf(i)) = 1

\* C2 as amended: the same, for the calls whose REQUEST dispatch next
\* handled without raising; a call whose REQUEST dispatch raised never makes
\* a settlement dispatch.
C2_ExactlyOneSettlement ==
  \A i \in CallIds :
    Triple(calls[i].action) =>
      /\ SettlementMatches(i)
      /\ (Returned(i) /\ promises[i].state # "pending" /\ Quiescent) =>
            Cardinality(SettlementsOf(i)) = 1
      /\ ~Returned(i) => SettlementsOf(i) = {}

\* a promise rejected after the call returned, and its one FAILURE dispatch
C2_Witness ==
  \E i \in CallIds :
    /\ Triple(calls[i].action)
    /\ calls[i].atCall = "pending"
    /\ promises[i].state = "rejected"
    /\ Quiescent
    /\ PhaseOf(i, "FAILURE") # {}
    /\ PhaseOf(i, "SUCCESS") = {}

\* ---------------------------------------------------------------------- C3
\* C3: for an action without a promise field, next is called exactly once,
\* with the very action received (a types field included), and the call's
\* result is next's result.
C3_PlainForwarded ==
  \A i \in CallIds :
    "promise" \notin DOMAIN calls[i].action =>
      /\ Cardinality(EntriesOf(i)) = 1
      /\ \A k \in EntriesOf(i) :
           /\ log[k].action = calls[i].action
           /\ log[k].result = calls[i].result
      /\ calls[i].ret = NoPromise
      /\ \A n \in 1..Len(queue) : queue[n].call # i

\* a plain action that carries a types field and a field of its own went
\* through, and next returned
C3_Witness ==
  \E i \in CallIds :
    /\ "promise" \notin DOMAIN calls[i].action
    /\ "types" \in DOMAIN calls[i].action
    /\ "id" \in DOMAIN calls[i].action
    /\ calls[i].result.kind = "return"
    /\ EntriesOf(i) # {}

\* ---------------------------------------------------------------------- C4
\* C4 as stated: when the promise of a flow action rejected with E and the
\* returned promise has settled, it rejected with E, in every execution.
C4_Original ==
  \A i \in CallIds :
    (/\ FlowInput(calls[i].action)
     /\ Returned(i)
     /\ promises[i].state = "rejected"
     /\ calls[i].ret.state # "pending") =>
       calls[i].ret = [state |-> "rejected", value |-> promises[i].value]

\* C4 as amended: the returned promise rejects whenever the original one
\* does (it has once the FAILURE dispatch is made), with the same reason E
\* when next handled the FAILURE dispatch without raising, and with what
\* next raised otherwise.
C4_RejectionPropagates ==
  \A i \in CallIds :
    (/\ FlowInput(calls[i].action)
     /\ Returned(i)
     /\ promises[i].state = "rejected") =>
       /\ calls[i].ret.state \in {"pending", "rejected"}
       /\ calls[i].ret.state = "pending" <=> PhaseOf(i, "FAILURE") = {}
       /\ \A k \in PhaseOf(i, "FAILURE") :
            calls[i].ret.value =
              IF log[k].result.kind = "return"
                THEN promises[i].value ELSE log[k].result.val
       /\ calls[i].caller # "none" =>
            /\ calls[i].caller = "catch"
            /\ calls[i].seen = calls[i].ret.value

\* the caller's catch handler ran with the reason the promise rejected with
C4_Witness ==
  \E i \in CallIds :
    /\ FlowInput(calls[i].action)
    /\ promises[i].state = "rejected"
    /\ calls[i].ret = [state |-> "rejected", value |-> promises[i].value]
    /\ calls[i].caller = "catch"
    /\ calls[i].seen = promises[i].value

\* ---------------------------------------------------------------------- C5
\* the fields of an action other than promise and types
FieldsOf(a) == DOMAIN a \ {"promise", "types"}

\* the dispatches derived from flow call i
DerivedOf(i) == PhaseOf(i, "REQUEST") \cup SettlementsOf(i)

\* C5 as stated: every field of rest, whatever its name (type, value and
\* error included), has the same value in every derived dispatch.
C5_Original ==
  \A i \in CallIds :
    FlowInput(calls[i].action) =>
      \A k \in DerivedOf(i) : \A f \in FieldsOf(calls[i].action) :
        /\ f \in DOMAIN log[k].action
        /\ log[k].action[f] = calls[i].action[f]

\* the fields a derived dispatch writes after spreading rest
Written(ph) ==
  {"type"} \cup (IF ph = "SUCCESS" THEN {"value"} ELSE {})
           \cup (IF ph = "FAILURE" THEN {"error"} ELSE {})

\* C5 as amended: every field of rest is present in every derived dispatch,
\* with the same value unless the dispatch writes that field itself: type in
\* every dispatch, value in the SUCCESS dispatch, error in the FAILURE one.
C5_RestPreserved ==
  \A i \in CallIds :
    FlowInput(calls[i].action) =>
      \A k \in DerivedOf(i) : \A f \in FieldsOf(calls[i].action) :
        /\ f \in DOMAIN log[k].action
        /\ f \notin Written(log[k].phase) =>
             log[k].action[f] = calls[i].action[f]

\* a flow action with an error field of its own was rejected: the REQUEST
\* dispatch carries the caller's error, the FAILURE dispatch the reason
C5_Witness ==
  \E i \in CallIds :
    /\ FlowInput(calls[i].action)
    /\ "error" \in FieldsOf(calls[i].action)
    /\ \E k \in PhaseOf(i, "REQUEST") :
         log[k].action["error"] = calls[i].action["error"]
    /\ \E k \in PhaseOf(i, "FAILURE") :
         log[k].action["error"] # calls[i].action["error"]

\* ---------------------------------------------------------------------- C6
\* C6: with types = [A, B, C], the SUCCESS dispatch has type B and the
\* fulfilment value as value, the FAILURE dispatch has type C and the
\* rejection reason as error, and the REQUEST dispatch has type A and no
\* value or error but the ones of rest.
C6_DerivedShapes ==
  \A i \in CallIds :
    Triple(calls[i].action) =>
      LET a == calls[i].action
          FromRest(k, f) ==
            f \in DOMAIN log[k].action =>
              f \in FieldsOf(a) /\ log[k].action[f] = a[f]
      IN
        /\ \A k \in PhaseOf(i, "SUCCESS") :
             /\ promises[i].state = "fulfilled"
             /\ Tagged(k, a["types"][2])
             /\ "value" \in DOMAIN log[k].action
             /\ log[k].action["value"] = promises[i].value
        /\ \A k \in PhaseOf(i, "FAILURE") :
             /\ promises[i].state = "rejected"
             /\ Tagged(k, a["types"][3])
             /\ "error" \in DOMAIN log[k].action
             /\ log[k].action["error"] = promises[i].value
        /\ \A k \in PhaseOf(i, "REQUEST") :
             /\ Tagged(k, a["types"][1])
             /\ FromRest(k, "value")
             /\ FromRest(k, "error")

\* a flow action whose rest has a type field of its own was fulfilled: both
\* dispatches are made and neither keeps the caller's type
C6_Witness ==
  \E i \in CallIds :
    /\ Triple(calls[i].action)
    /\ "type" \in FieldsOf(calls[i].action)
    /\ PhaseOf(i, "REQUEST") # {}
    /\ \E k \in PhaseOf(i, "SUCCESS") :
         log[k].action["type"] # calls[i].action["type"]

\* ---------------------------------------------------------------------- C7
\* C7: next sees the REQUEST dispatch of a flow action, tagged A, before its
\* SUCCESS or FAILURE dispatch, tagged B or C, also when the promise was
\* settled at call time.
C7_RequestThenSettlement ==
  \A i \in CallIds :
    Triple(calls[i].action) =>
      \A k \in SettlementsOf(i) :
        /\ Tagged(k, calls[i].action["types"][2])
             \/ Tagged(k, calls[i].action["types"][3])
        /\ \E j \in EntriesOf(i) :
             j < k /\ Tagged(j, calls[i].action["types"][1])
        /\ \A j \in PhaseOf(i, "REQUEST") : j < k

\* the promise was fulfilled before the call, and both dispatches are made
C7_Witness ==
  \E i \in CallIds :
    /\ Triple(calls[i].action)
    /\ calls[i].atCall = "fulfilled"
    /\ \E j \in PhaseOf(i, "REQUEST") : \E k \in PhaseOf(i, "SUCCESS") : j < k

\* ---------------------------------------------------------------------- C8
\* C8: a handler the caller chained on the returned promise runs only after
\* the settlement dispatch of that action is made: the FAILURE dispatch when
\* the promise rejected, the SUCCESS dispatch when it fulfilled.
C8_DispatchBeforeCaller ==
  \A i \in CallIds :
    calls[i].caller # "none" =>
      \E k \in SettlementsOf(i) :
        /\ k <= calls[i].ranAt
        /\ promises[i].state = "rejected" =>
             log[k].phase = "FAILURE" /\ calls[i].caller = "catch"
        /\ promises[i].state = "fulfilled" => log[k].phase = "SUCCESS"
        /\ calls[i].caller = "then" => log[k].phase = "SUCCESS"

\* the caller's catch handler ran, after the FAILURE dispatch
C8_Witness ==
  \E i \in CallIds :
    /\ calls[i].caller = "catch"
    /\ promises[i].state = "rejected"
    /\ \E k \in PhaseOf(i, "FAILURE") : k <= calls[i].ranAt

\* ---------------------------------------------------------------------- C9
\* C9: no REQUEST, SUCCESS or FAILURE dispatch has a promise field or a types
\* field.
C9_PromiseAndTypesStripped ==
  \A i \in CallIds :
    \A k \in DerivedOf(i) :
      /\ "promise" \notin DOMAIN log[k].action
      /\ "types" \notin DOMAIN log[k].action

\* a flow action made both its dispatches
C9_Witness ==
  \E i \in CallIds :
    /\ FlowInput(calls[i].action)
    /\ PhaseOf(i, "REQUEST") # {}
    /\ PhaseOf(i, "FAILURE") # {}

\* --------------------------------------------------------------------- C10
Pos(seq, x) == CHOOSE n \in 1..Len(seq) : seq[n] = x

\* the settlement dispatch at position k of the log is made of the fields,
\* types and payload of its own call
OwnSettlement(k) ==
  LET i == log[k].call
      a == calls[i].action
  IN /\ \A f \in FieldsOf(a) \ Written(log[k].phase) :
          f \in DOMAIN log[k].action /\ log[k].action[f] = a[f]
     /\ log[k].phase = "SUCCESS" =>
          /\ promises[i].state = "fulfilled"
          /\ Tagged(k, a["types"][2])
          /\ log[k].action["value"] = promises[i].value
     /\ log[k].phase = "FAILURE" =>
          /\ promises[i].state = "rejected"
          /\ Tagged(k, a["types"][3])
          /\ log[k].action["error"] = promises[i].value

\* no settlement dispatch is suppressed or duplicated: a call that returned
\* and whose promise settled has one, unless its continuation still waits
NoneLost ==
  \A i \in CallIds :
    /\ Cardinality(SettlementsOf(i)) <= 1
    /\ (/\ Returned(i)
        /\ promises[i].state # "pending"
        /\ \A n \in 1..Len(queue) :
             queue[n] # [kind |-> "reaction", call |-> i]) =>
          Cardinality(SettlementsOf(i)) = 1

SettlementPositions ==
  {k \in 1..Len(log) : log[k].phase \in {"SUCCESS", "FAILURE"}}

\* C10 as stated: with several flow actions in flight, the settlement
\* dispatches are made in the order the promises settle, each with its own
\* action's fields, types and payload, none suppressed or duplicated.
C10_Original ==
  /\ \A k \in SettlementPositions : OwnSettlement(k)
  /\ NoneLost
  /\ \A j, k \in SettlementPositions :
       j < k => Pos(settled, log[j].call) < Pos(settled, log[k].call)

\* C10 as amended: the settlement dispatches are made in the order the
\* continuations become ready, which for a promise pending at dispatch is
\* when it settles and for a promise already settled at dispatch is the
\* dispatch; the rest as stated.
C10_Independent ==
  /\ \A k \in SettlementPositions : OwnSettlement(k)
  /\ NoneLost
  /\ \A j, k \in SettlementPositions :
       j < k => Pos(readied, log[j].call) < Pos(readied, log[k].call)
  /\ \A i \in CallIds :
       (Returned(i) /\ calls[i].atCall = "pending") =>
         \A h \in CallIds :
           (/\ Returned(h)
            /\ calls[h].atCall = "pending"
            /\ SettlementsOf(i) # {}
            /\ SettlementsOf(h) # {}
            /\ Pos(settled, i) < Pos(settled, h)) =>
              \A j \in SettlementsOf(i) : \A k \in SettlementsOf(h) : j < k

\* two flow actions with different rest fields: the one dispatched second
\* settled first and its settlement dispatch is made first
C10_Witness ==
  \E i, h \in CallIds :
    /\ i < h
    /\ calls[i].atCall = "pending"
    /\ calls[h].atCall = "pending"
    /\ Returned(i) /\ Returned(h)
    /\ calls[i].action # calls[h].action
    /\ \E j \in PhaseOf(h, "FAILURE") : \E k \in PhaseOf(i, "SUCCESS") : j < k

\* --------------------------------------------------------------------- C11
\* the type a dispatch gets from position n of a types array
TypeAt(types, n) == IF Len(types) >= n THEN types[n] ELSE "undefined"

\* C11: a flow action whose types has fewer than three elements raises no
\* error of its own: the REQUEST dispatch is made and the call ends as next
\* ends, the settlement dispatch is made once the promise has settled and
\* the continuation has run, a dispatch for a missing position has the type
\* undefined, and a rejection is re-raised.
C11_ShortTypes ==
  \A i \in CallIds :
    (FlowInput(calls[i].action) /\ Len(calls[i].action["types"]) < 3) =>
      LET t == calls[i].action["types"] IN
        /\ Cardinality(PhaseOf(i, "REQUEST")) = 1
        /\ \A k \in PhaseOf(i, "REQUEST") :
             /\ Tagged(k, TypeAt(t, 1))
             /\ \A j \in EntriesOf(i) : k <= j
             /\ IF log[k].result.kind = "return"
                  THEN Returned(i)
                  ELSE calls[i].result = log[k].result
        /\ \A k \in PhaseOf(i, "SUCCESS") :
             promises[i].state = "fulfilled" /\ Tagged(k, TypeAt(t, 2))
        /\ \A k \in PhaseOf(i, "FAILURE") :
             /\ promises[i].state = "rejected"
             /\ Tagged(k, "undefined")
             /\ calls[i].ret.state = "rejected"
             /\ log[k].result.kind = "return" =>
                  calls[i].ret.value = promises[i].value
        /\ Cardinality(SettlementsOf(i)) <= 1
        /\ (Returned(i) /\ promises[i].state # "pending" /\ Quiescent) =>
              Cardinality(SettlementsOf(i)) = 1

\* types = [A]: the promise rejected, the FAILURE dispatch has the type
\* undefined and the caller's catch handler saw the reason
C11_Witness ==
  \E i \in CallIds :
    /\ FlowInput(calls[i].action)
    /\ Len(calls[i].action["types"]) = 1
    /\ promises[i].state = "rejected"
    /\ \E k \in PhaseOf(i, "FAILURE") : log[k].action["type"] = "undefined"
    /\ calls[i].caller = "catch"
    /\ calls[i].seen = promises[i].value

\* --------------------------------------------------------------------- C12
\* C12: when next raises on the SUCCESS dispatch of a flow action, no FAILURE
\* dispatch is made for it, and the returned promise rejects with what next
\* raised although the original promise fulfilled.
C12_SuccessRaiseNotReported ==
  \A i \in CallIds :
    \A k \in PhaseOf(i, "SUCCESS") :
      log[k].result.kind = "throw" =>
        /\ promises[i].state = "fulfilled"
        /\ PhaseOf(i, "FAILURE") = {}
        /\ calls[i].ret = [state |-> "rejected", value |-> log[k].result.val]
        /\ calls[i].caller # "none" =>
             calls[i].caller = "catch" /\ calls[i].seen = log[k].result.val

\* next raised on the SUCCESS dispatch and the caller's catch handler ran
C12_Witness ==
  \E i \in CallIds :
    /\ promises[i].state = "fulfilled"
    /\ \E k \in PhaseOf(i, "SUCCESS") : log[k].result.kind = "throw"
    /\ calls[i].caller = "catch"
    /\ Quiescent

\* --------------------------------------------------------------------- C13
\* C13: when the promise of a flow action fulfilled and next returned from
\* the SUCCESS dispatch, the returned promise fulfils with what next
\* returned, which the caller's then handler sees, not with the resolved
\* value.
C13_FulfilsWithNextResult ==
  \A i \in CallIds :
    \A k \in PhaseOf(i, "SUCCESS") :
      log[k].result.kind = "return" =>
        /\ calls[i].ret = [state |-> "fulfilled", value |-> log[k].result.val]
        /\ calls[i].caller # "none" =>
             calls[i].caller = "then" /\ calls[i].seen = log[k].result.val

\* the caller's then handler ran with a value that is not the resolved one
C13_Witness ==
  \E i \in CallIds :
    /\ promises[i].state = "fulfilled"
    /\ calls[i].caller = "then"
    /\ calls[i].seen # promises[i].value
    /\ \E k \in PhaseOf(i, "SUCCESS") : calls[i].seen = log[k].result.val

\* --------------------------------------------------------------------- C14
\* C14: when next raises on the REQUEST dispatch of a flow action, the call
\* ends with that exception, no continuation is attached to the promise,
\* and no SUCCESS or FAILURE dispatch is made for the action, also after
\* its promise has settled.
C14_RequestRaiseAborts ==
  \A i \in CallIds :
    \A k \in PhaseOf(i, "REQUEST") :
      log[k].result.kind = "throw" =>
        /\ calls[i].result = log[k].result
        /\ calls[i].ret = NoPromise
        /\ SettlementsOf(i) = {}
        /\ \A n \in 1..Len(queue) : queue[n].call # i
        /\ \A n \in 1..Len(readied) : readied[n] # i
        /\ calls[i].caller = "none"

\* next raised on the REQUEST dispatch, the promise settled afterwards and
\* nothing is left to run
C14_Witness ==
  \E i \in CallIds :
    /\ FlowInput(calls[i].action)
    /\ \E k \in PhaseOf(i, "REQUEST") : log[k].result.kind = "throw"
    /\ calls[i].atCall = "pending"
    /\ promises[i].state # "pending"
    /\ Quiescent

\* --------------------------------------------------------------------- C15
\* the falsy values of a promise field
FalsyPromise == {"null", "undefined", "false", "0", ""}

\* C15: an action whose promise field is present and falsy is forwarded to
\* next once, as it is, promise and types fields included, the call ends as
\* next ends, and no REQUEST, SUCCESS or FAILURE dispatch is derived.
C15_FalsyPromiseIsPlain ==
  \A i \in CallIds :
    (/\ "promise" \in DOMAIN calls[i].action
     /\ calls[i].action["promise"] \in FalsyPromise) =>
       /\ Cardinality(EntriesOf(i)) = 1
       /\ \A k \in EntriesOf(i) :
            /\ log[k].phase = "PLAIN"
            /\ log[k].action = calls[i].action
            /\ "promise" \in DOMAIN log[k].action
            /\ "types" \in DOMAIN calls[i].action =>
                 "types" \in DOMAIN log[k].action
            /\ log[k].result = calls[i].result
       /\ DerivedOf(i) = {}
       /\ \A n \in 1..Len(queue) : queue[n].call # i

\* an action with promise: null and a types triple went through as it is
C15_Witness ==
  \E i \in CallIds :
    /\ "promise" \in DOMAIN calls[i].action
    /\ calls[i].action["promise"] = "null"
    /\ "types" \in DOMAIN calls[i].action
    /\ Len(calls[i].action["types"]) = 3
    /\ \E k \in PhaseOf(i, "PLAIN") :
         /\ log[k].action["promise"] = "null"
         /\ log[k].action["types"] = calls[i].action["types"]

\* --------------------------------------------------------------------- C16
\* the number of calls to next that call i has caused
Count(i) == Cardinality(EntriesOf(i))

\* a flow action whose promise is pending has made only the REQUEST
\* dispatch, and its returned promise is pending
OnlyRequest(i) ==
  /\ Count(i) = 1
  /\ PhaseOf(i, "REQUEST") = EntriesOf(i)
  /\ Returned(i) => calls[i].ret.state = "pending"
  /\ calls[i].caller = "none"

\* C16 as stated: in every reachable state a plain action has caused exactly
\* one call to next, a flow action one while its promise is pending and
\* exactly two once it has settled.
C16_Original ==
  \A i \in CallIds :
    /\ "promise" \notin DOMAIN calls[i].action => Count(i) = 1
    /\ FlowInput(calls[i].action) =>
         /\ promises[i].state = "pending" => OnlyRequest(i)
         /\ promises[i].state # "pending" => Count(i) = 2

\* C16 as amended: a plain action has caused exactly one call to next; a
\* flow action one or two, two exactly when the continuation of its settled
\* promise has run (which settles the returned promise), and that happens
\* for every call that returned once nothing of it is left in the queue; it
\* stays one while the settled promise's continuation waits and when next
\* raised on the REQUEST dispatch.
C16_CountBounded ==
  \A i \in CallIds :
    /\ "promise" \notin DOMAIN calls[i].action => Count(i) = 1
    /\ FlowInput(calls[i].action) =>
         /\ Count(i) \in {1, 2}
         /\ promises[i].state = "pending" => OnlyRequest(i)
         /\ Count(i) = 2 <=>
              /\ Returned(i)
              /\ promises[i].state # "pending"
              /\ calls[i].ret.state \in {"fulfilled", "rejected"}
         /\ (/\ Returned(i)
             /\ promises[i].state # "pending"
             /\ \A n \in 1..Len(queue) :
                  queue[n] # [kind |-> "reaction", call |-> i]) =>
               Count(i) = 2
         /\ ~Returned(i) => Count(i) = 1

\* a flow action whose promise rejected, with two calls to next, next to
\* a flow action whose promise is pending, with one
C16_Witness ==
  \E i, h \in CallIds :
    /\ FlowInput(calls[i].action)
    /\ promises[i].state = "rejected"
    /\ Count(i) = 2
    /\ FlowInput(calls[h].action)
    /\ promises[h].state = "pending"
    /\ Count(h) = 1

====
